---- MODULE Spec2Model ----
(***************************************************************************)
(* Model of the Claude Desktop restart server                              *)
(* (src/src/mcp_server_restart/server.py).                                 *)
(*                                                                         *)
(* Two request handlers run on one asyncio event loop.  Neither contains   *)
(* an await, so a handler runs from entry to return without another        *)
(* handler being scheduled; the operating system's process table, however, *)
(* changes underneath it at any moment (processes appear and exit).        *)
(*                                                                         *)
(* The earlier single-file server (src/server.py) awaits progress          *)
(* notifications inside its tool handler; it is modelled as coroutines on  *)
(* the same event loop (variables loop, tasks, steps).                     *)
(*                                                                         *)
(* Strings are TLA+ strings: messages are built by concatenation, exactly  *)
(* as the code builds them, and searched by substring.                     *)
(***************************************************************************)
EXTENDS Integers, Sequences, FiniteSets, TLC

VARIABLES
    table,              \* the OS process table, in enumeration order (by pid)
    nextPid,            \* the next process identifier the OS hands out
    now,                \* the wall clock read by datetime.now()
    pc,                 \* position of the running handler
    request,            \* the request being served (or served last)
    claude_processes,   \* handle_call_tool's local list of matched processes
    idx,                \* position of the for loop over claude_processes
    result,             \* handle_call_tool's local result dictionary
    response,           \* what the handler handed back to the dispatcher
    calls,              \* the primitives the current request has invoked
    watch,              \* is the round-trip observer switched on?
    trace,              \* how far the latest requests form a status/restart/status round trip
    scanned,            \* what the latest enumeration of the process table met
    loop,               \* src/server.py: the task the event loop is running
    tasks,              \* src/server.py: the handle_call_tool coroutines
    steps               \* src/server.py: the primitives the coroutines invoked

vars == <<table, nextPid, now, pc, request, claude_processes, idx, result,
          response, calls, watch, trace, scanned, loop, tasks, steps>>

----------------------------------------------------------------------------
(* Bounds of the model *)

MaxPid == 3
MaxClock == 2

----------------------------------------------------------------------------
(* Values *)

None == -1

Target == "Claude Desktop"

Names == {"Claude Desktop", "Claude Helper"}

RestartTool == "restart_claude"

Uris == {"claude://status", "claude:/status", "claude://invalid",
         "http://status", "claude://status/extra", "claude://",
         "claude://claude://status"}

ToolNames == {"restart_claude", "restart", "stop_claude"}

Arguments == {"{}", "{force: true}"}

NoArguments == "{}"

\* What reading proc.info['name'] can do for one entry of the enumeration.
AccessOutcomes == {"ok", "NoSuchProcess", "AccessDenied", "Error"}

ScanErrorText == "process table unavailable"

----------------------------------------------------------------------------
(* Python string primitives *)

StartsWith(s, t) == Len(s) >= Len(t) /\ SubSeq(s, 1, Len(t)) = t

Contains(s, t) ==
    \E i \in 1..(Len(s) - Len(t) + 1) : SubSeq(s, i, i + Len(t) - 1) = t

\* Number of (possibly overlapping) places where t occurs in s.
Occurrences(s, t) ==
    Cardinality({i \in 1..(Len(s) - Len(t) + 1) : SubSeq(s, i, i + Len(t) - 1) = t})

\* str.replace(old, new): every non-overlapping occurrence, left to right.
RECURSIVE Replace(_, _, _)
Replace(s, old, new) ==
    IF Len(s) < Len(old) THEN s
    ELSE IF SubSeq(s, 1, Len(old)) = old
         THEN new \o Replace(SubSeq(s, Len(old) + 1, Len(s)), old, new)
         ELSE SubSeq(s, 1, 1) \o Replace(SubSeq(s, 2, Len(s)), old, new)

TwoDigits(n) == IF n < 10 THEN "0" \o ToString(n) ELSE ToString(n)

\* Isoformat cut off at the minute.
IsoformatMinutes(t) == "2024-01-01T00:00"

\* datetime.isoformat() of the clock value.
Isoformat(t) == "2024-01-01T00:00:" \o TwoDigits(t)

----------------------------------------------------------------------------
(* The process table *)

Pids(tbl) == {tbl[i].pid : i \in 1..Len(tbl)}

Alive(p) == p \in Pids(table)

RemovePid(tbl, p) == SelectSeq(tbl, LAMBDA e : e.pid # p)

\* ScanFails taking a vanished process for a failure of the enumeration.
ScanFailsOnVanished(acc) ==
    \E i \in DOMAIN acc : acc[i] \in {"Error", "NoSuchProcess"}

\* Does the enumeration itself break (something other than a vanished or
\* inaccessible process)?
ScanFails(acc) == \E i \in DOMAIN acc : acc[i] = "Error"

\* for proc in psutil.process_iter(['pid', 'name']): keep the processes whose
\* name can be read and equals the target, in enumeration order; a process
\* that raises NoSuchProcess or AccessDenied is skipped.
RECURSIVE LocateFrom(_, _, _)
LocateFrom(tbl, acc, i) ==
    IF i > Len(tbl) THEN <<>>
    ELSE IF acc[i] = "ok" /\ tbl[i].name = Target
         THEN <<tbl[i].pid>> \o LocateFrom(tbl, acc, i + 1)
         ELSE LocateFrom(tbl, acc, i + 1)

Locate(tbl, acc) == LocateFrom(tbl, acc, 1)

\* except (psutil.NoSuchProcess, psutil.AccessDenied): continue
Caught(a) == IF a \in {"NoSuchProcess", "AccessDenied"} THEN "skipped" ELSE a

\* What one pass of process_iter met: every process of the table, in
\* enumeration order, with the outcome of reading its name.
Enumerated(tbl, acc) ==
    [i \in 1..Len(tbl) |->
        [pid |-> tbl[i].pid, name |-> tbl[i].name, access |-> Caught(acc[i])]]

\* The enumeration log, kept only when it is switched on.
ScanLog(on) == [on |-> on, entries |-> <<>>]

Record(log, tbl, acc) ==
    IF log.on THEN [log EXCEPT !.entries = Enumerated(tbl, acc)] ELSE log

Forget(log) == [log EXCEPT !.entries = <<>>]

----------------------------------------------------------------------------
(* Responses *)

\* The result dictionary of a handler that has not built one.
NoResult == [status |-> "", message |-> ""]

NoResponse == [kind |-> "none"]

Raise(type, text) == [kind |-> "raise", type |-> type, text |-> text]

Return(body) == [kind |-> "return", body |-> body]

\* The processes whose wait returned during the current request.
Exited(cs) == {cs[i].pid : i \in {j \in 1..Len(cs) : cs[j].op = "wait" /\ cs[j].out = "ok"}}

IsRead(req, resp) == req.op = "read_resource" /\ resp.kind = "return"

IsRestarted(req, resp) ==
    /\ req.op = "call_tool"
    /\ resp.kind = "return"
    /\ resp.body.status = "success"

NoStatus == [running |-> FALSE, pid |-> None, timestamp |-> ""]

NoTrip == [legs |-> 0, first |-> NoStatus, exited |-> {}]

\* The dispatcher serves one request after the other.  Observe follows the
\* completed requests as far as they form <<status read, successful restart,
\* status read>>, each immediately followed by the next: legs counts how
\* much of that has happened, first is the report of the read that began
\* it, exited the processes the restart saw exit.  The second read of one
\* round trip is the first read of the next.
Observe(trip, req, resp, cs) ==
    IF ~watch THEN NoTrip
    ELSE IF IsRead(req, resp)
    THEN [legs |-> IF trip.legs = 2 THEN 3 ELSE 1, first |-> resp.body, exited |-> {}]
    ELSE IF IsRestarted(req, resp) /\ trip.legs \in {1, 3}
         THEN [legs |-> 2, first |-> trip.first, exited |-> Exited(cs)]
         ELSE NoTrip

Call(op, pid, out) == [op |-> op, pid |-> pid, out |-> out]

----------------------------------------------------------------------------
(* handle_read_resource *)

\* The checks on the URI: the text of the ValueError raised, or "" when the
\* URI passes.
UriError(uri) ==
    IF ~StartsWith(uri, "claude://")
    THEN "Unknown resource: Invalid URI scheme"
    ELSE LET path == Replace(uri, "claude://", "")
         IN  IF path = "" \/ path # "status"
             THEN "Unknown resource: " \o path
             ELSE ""

\* except Exception as e: an exception whose text lacks "Unknown resource"
\* is replaced by a ValueError that has it; any other is raised again.
Reraise(exc) ==
    IF ~Contains(exc.text, "Unknown resource")
    THEN Raise("ValueError", "Unknown resource: " \o exc.text)
    ELSE exc

\* Status with the pid of the last match instead of the first.
StatusLastMatch(procs, t) ==
    [running   |-> Len(procs) > 0,
     pid       |-> IF procs # <<>> THEN procs[Len(procs)] ELSE None,
     timestamp |-> Isoformat(t)]

\* The status dictionary.
Status(procs, t) ==
    [running   |-> Len(procs) > 0,
     pid       |-> IF procs # <<>> THEN procs[1] ELSE None,
     timestamp |-> Isoformat(t)]

ReadResource(uri) ==
    /\ pc \in {"idle", "done"}
    /\ request' = [op |-> "read_resource", name |-> uri, arguments |-> NoArguments]
    /\ calls' = <<>>
    /\ IF UriError(uri) # ""
       THEN /\ response' = Reraise(Raise("ValueError", UriError(uri)))
            /\ pc' = "done"
            /\ trace' = Observe(trace, request', response', calls')
       ELSE /\ response' = NoResponse
            /\ pc' = "read_scan"
            /\ UNCHANGED trace
    /\ claude_processes' = <<>>
    /\ idx' = 0
    /\ result' = NoResult
    /\ scanned' = Forget(scanned)
    /\ UNCHANGED <<loop, tasks, steps, watch, table, nextPid, now>>

ReadScan ==
    /\ pc = "read_scan"
    /\ \E acc \in [1..Len(table) -> AccessOutcomes] :
        /\ scanned' = Record(scanned, table, acc)
        /\ IF ScanFails(acc)
           THEN /\ calls' = Append(calls, Call("scan", None, "Error"))
                /\ response' = Reraise(Raise("Exception", ScanErrorText))
                /\ UNCHANGED claude_processes
           ELSE /\ calls' = Append(calls, Call("scan", None, "ok"))
                /\ claude_processes' = Locate(table, acc)
                /\ response' = Return(Status(claude_processes', now))
    /\ pc' = "done"
    /\ trace' = Observe(trace, request, response', calls')
    /\ UNCHANGED <<loop, tasks, steps, watch, table, nextPid, now, request, idx, result>>

----------------------------------------------------------------------------
(* handle_call_tool *)

\* result = {"status": "success", "message": ""}
InitialResult == [status |-> "success", message |-> ""]

TerminatedEntry(pid) == "Terminated Claude process " \o ToString(pid) \o ". "

SummaryEntry(n) == "Terminated " \o ToString(n) \o " existing Claude process(es). "

StartedEntry == "Started new Claude process."

\* AppendMessage assigning the entry instead of appending it.
AppendMessageAssign(res, entry) == [res EXCEPT !.message = entry]

\* result["message"] += entry
AppendMessage(res, entry) == [res EXCEPT !.message = res.message \o entry]

\* OnTimeout setting the message and forgetting the status.
OnTimeoutKeepStatus(res) ==
    [res EXCEPT !.message = "Failed to terminate Claude: timeout"]

\* except psutil.TimeoutExpired
OnTimeout(res) ==
    [status |-> "error", message |-> "Failed to terminate Claude: timeout"]

\* except Exception as e (around terminate and wait)
OnTerminateError(res, cause) ==
    [status |-> "error", message |-> "Failed to terminate Claude: " \o cause]

\* OnStartError setting the message and forgetting the status.
OnStartErrorKeepStatus(res) == [res EXCEPT !.message = "Failed to start Claude"]

\* OnStartError appending to the message instead of replacing it.
OnStartErrorAppend(res) ==
    [status |-> "error", message |-> res.message \o "Failed to start Claude"]

\* except Exception as e (around subprocess.Popen)
OnStartError(res) ==
    [status |-> "error", message |-> "Failed to start Claude"]

\* str(e) of what terminate or wait raised.
ExcText(out) == IF out = "Exception" THEN "Termination failed" ELSE out

\* What proc.terminate() can do: a process that is gone raises
\* NoSuchProcess; a live one takes the signal or raises.
TerminateOutcomes(p) ==
    IF Alive(p) THEN {"ok", "TimeoutExpired", "AccessDenied", "Exception"}
    ELSE {"NoSuchProcess"}

\* What proc.wait(timeout=5) can do: a process that is gone returns at once;
\* a live one exits in time, or does not, or the wait raises.
WaitOutcomes(p) ==
    IF Alive(p) THEN {"ok", "TimeoutExpired", "AccessDenied", "Exception"}
    ELSE {"ok"}

\* Except without the clause for psutil.TimeoutExpired.
ExceptWithoutTimeoutClause(res, out) == OnTerminateError(res, ExcText(out))

\* The except clauses of the loop body: the result after terminate or wait
\* raised `out`.
Except(res, out) ==
    IF out = "TimeoutExpired" THEN OnTimeout(res)
    ELSE OnTerminateError(res, ExcText(out))

\* AfterScan writing the summary even when nothing matched.
AfterScanAlwaysSummary(procs) == IF procs # <<>> THEN "terminate" ELSE "summary"

\* if claude_processes: ... else straight to the launch
AfterScan(procs) == IF procs # <<>> THEN "terminate" ELSE "launch"

\* AfterWait leaving the loop one process early.
AfterWaitOffByOne(procs, i) == IF i < Len(procs) - 1 THEN "terminate" ELSE "summary"

\* The for loop: the next process, or the summary after the last one.
AfterWait(procs, i) == IF i < Len(procs) THEN "terminate" ELSE "summary"

\* AfterExcept falling through to the launch instead of returning.
AfterExceptFallThrough == "launch"

\* AfterExcept going round the loop again instead of returning.
AfterExceptContinue == "terminate"

\* Where control goes when the loop body raised.
AfterExcept == "return"

\* UnknownTool accepting every name that begins like the tool's.
UnknownToolByPrefix(name) == ~StartsWith(name, "restart")

\* if name != "restart_claude"
UnknownTool(name) == name # RestartTool

CallTool(name, arguments) ==
    /\ pc \in {"idle", "done"}
    /\ request' = [op |-> "call_tool", name |-> name, arguments |-> arguments]
    /\ calls' = <<>>
    /\ IF UnknownTool(name)
       THEN /\ response' = Raise("ValueError", "Unknown tool: " \o name)
            /\ pc' = "done"
            /\ result' = NoResult
            /\ trace' = Observe(trace, request', response', calls')
       ELSE /\ response' = NoResponse
            /\ pc' = "scan"
            /\ result' = InitialResult
            /\ UNCHANGED trace
    /\ claude_processes' = <<>>
    /\ idx' = 0
    /\ scanned' = Forget(scanned)
    /\ UNCHANGED <<loop, tasks, steps, watch, table, nextPid, now>>

Scan ==
    /\ pc = "scan"
    /\ \E acc \in [1..Len(table) -> AccessOutcomes] :
        /\ scanned' = Record(scanned, table, acc)
        /\ IF ScanFails(acc)
           THEN /\ calls' = Append(calls, Call("scan", None, "Error"))
                /\ response' = Raise("Exception", ScanErrorText)
                /\ pc' = "done"
                /\ trace' = Observe(trace, request, response', calls')
                /\ UNCHANGED <<claude_processes, idx, result>>
           ELSE /\ calls' = Append(calls, Call("scan", None, "ok"))
                /\ claude_processes' = Locate(table, acc)
                /\ idx' = 1
                /\ pc' = AfterScan(claude_processes')
                /\ UNCHANGED <<response, result, trace>>
    /\ UNCHANGED <<loop, tasks, steps, watch, table, nextPid, now, request>>

Terminate ==
    /\ pc = "terminate"
    /\ LET proc == claude_processes[idx] IN
       \E out \in TerminateOutcomes(proc) :
        /\ calls' = Append(calls, Call("terminate", proc, out))
        /\ IF out = "ok"
           THEN /\ pc' = "wait"
                /\ UNCHANGED result
           ELSE /\ result' = Except(result, out)
                /\ pc' = AfterExcept
    /\ UNCHANGED <<loop, tasks, steps, scanned, watch, table, nextPid, now, request, claude_processes, idx, response, trace>>

Wait ==
    /\ pc = "wait"
    /\ LET proc == claude_processes[idx] IN
       \E out \in WaitOutcomes(proc) :
        /\ calls' = Append(calls, Call("wait", proc, out))
        /\ IF out = "ok"
           THEN /\ table' = RemovePid(table, proc)
                /\ result' = AppendMessage(result, TerminatedEntry(proc))
                /\ pc' = AfterWait(claude_processes, idx)
                /\ idx' = IF pc' = "terminate" THEN idx + 1 ELSE idx
           ELSE /\ result' = Except(result, out)
                /\ pc' = AfterExcept
                /\ UNCHANGED <<table, idx>>
    /\ UNCHANGED <<loop, tasks, steps, scanned, watch, nextPid, now, request, claude_processes, response, trace>>

Summary ==
    /\ pc = "summary"
    /\ result' = AppendMessage(result, SummaryEntry(Len(claude_processes)))
    /\ pc' = "launch"
    /\ UNCHANGED <<loop, tasks, steps, scanned, watch, table, nextPid, now, request, claude_processes, idx, response,
                   calls, trace>>

\* subprocess.Popen(['open', '-a', 'Claude']): the spawn takes time, and
\* either starts the launcher or raises.
Launch ==
    /\ pc = "launch"
    /\ now < MaxClock
    /\ now' = now + 1
    /\ \E out \in {"ok", "Exception"} :
        /\ calls' = Append(calls, Call("popen", None, out))
        /\ result' = IF out = "ok" THEN AppendMessage(result, StartedEntry)
                     ELSE OnStartError(result)
    /\ pc' = "return"
    /\ UNCHANGED <<loop, tasks, steps, scanned, watch, table, nextPid, request, claude_processes, idx, response, trace>>

\* return [types.TextContent(type="text", text=json.dumps(result, indent=2))]
ReturnResult ==
    /\ pc = "return"
    /\ response' = Return(result)
    /\ pc' = "done"
    /\ trace' = Observe(trace, request, response', calls)
    /\ UNCHANGED <<loop, tasks, steps, scanned, watch, table, nextPid, now, request, claude_processes, idx,
                   result, calls>>

----------------------------------------------------------------------------
(* The operating system *)

\* A process starts (the launched application among them).
EnvSpawn ==
    /\ nextPid <= MaxPid
    /\ \E n \in Names : table' = Append(table, [pid |-> nextPid, name |-> n])
    /\ nextPid' = nextPid + 1
    /\ UNCHANGED <<loop, tasks, steps, scanned, watch, now, pc, request, claude_processes, idx, result, response,
                   calls, trace>>

\* A process exits on its own.
EnvExit ==
    /\ \E p \in Pids(table) : table' = RemovePid(table, p)
    /\ UNCHANGED <<loop, tasks, steps, scanned, watch, nextPid, now, pc, request, claude_processes, idx, result,
                   response, calls, watch, trace>>

\* Time passes.
Tick ==
    /\ now < MaxClock
    /\ now' = now + 1
    /\ UNCHANGED <<loop, tasks, steps, scanned, watch, table, nextPid, pc, request, claude_processes, idx, result,
                   response, calls, watch, trace>>

----------------------------------------------------------------------------

(* src/server.py: the earlier single-file server *)

\* The requests the dispatcher has handed to handle_call_tool, one
\* coroutine each.
Requests == {"r1", "r2"}

\* server.request_context.meta.progressToken: absent, or a token.
NoToken == ""

ProgressTokens == {NoToken, "token"}

\* No coroutine is running: the event loop is free.
NoTask == "none"

\* claude_process = None
NoProcess == [pid |-> None, name |-> ""]

IdleTask ==
    [pc |-> "idle", token |-> NoToken, claude_process |-> NoProcess,
     result |-> NoResult, response |-> NoResponse]

NoTasks == [t \in Requests |-> IdleTask]

\* if 'Claude' in proc.info['name']
LegacyMatches(name) == Contains(name, "Claude")

\* Where the for loop over process_iter stops: at the first process whose
\* name can be read and matches (break), or where the enumeration breaks;
\* 0 when it runs to the end.
RECURSIVE StopAt(_, _, _)
StopAt(tbl, acc, i) ==
    IF i > Len(tbl) THEN 0
    ELSE IF acc[i] = "Error" \/ (acc[i] = "ok" /\ LegacyMatches(tbl[i].name))
         THEN i
         ELSE StopAt(tbl, acc, i + 1)

Step(t, op, pid, out) == [task |-> t, op |-> op, pid |-> pid, out |-> out]

\* The event loop runs one coroutine at a time: a coroutine that holds the
\* loop keeps it until it awaits or returns; when the loop is free any
\* coroutine that has been started and has not returned can be resumed.
Runs(t) == loop = t \/ (loop = NoTask /\ tasks[t].pc \notin {"idle", "done"})

\* if progress_token := ...: await ...send_progress_notification(...)
ThenProgress(token, progress, otherwise) ==
    IF token # NoToken THEN progress ELSE otherwise

OnLegacyTerminateError(res, cause) ==
    [status |-> "error", message |-> "Failed to terminate Claude: " \o cause]

OnLegacyStartError(res, cause) ==
    [status |-> "error", message |-> "Failed to start Claude: " \o cause]

PackageVars ==
    <<now, pc, request, claude_processes, idx, result, response, calls, watch,
      trace, scanned>>

LegacyCallTool(t, name, token) ==
    /\ loop = NoTask
    /\ tasks[t].pc = "idle"
    /\ IF name # RestartTool
       THEN /\ tasks' = [tasks EXCEPT ![t] =
                            [IdleTask EXCEPT !.pc = "done",
                                             !.response = Raise("ValueError", "Unknown tool: " \o name)]]
            /\ loop' = NoTask
       ELSE /\ tasks' = [tasks EXCEPT ![t] =
                            [IdleTask EXCEPT !.pc = ThenProgress(token, "progress0", "scan"),
                                             !.token = token,
                                             !.result = InitialResult]]
            /\ loop' = t
    /\ UNCHANGED <<steps, table, nextPid, PackageVars>>

\* await server.request_context.session.send_progress_notification(...):
\* the coroutine is suspended and the event loop is free to run another.
LegacyProgress(t) ==
    /\ Runs(t)
    /\ tasks[t].pc \in {"progress0", "progress1", "progress2"}
    /\ tasks' = [tasks EXCEPT ![t].pc =
                    CASE tasks[t].pc = "progress0" -> "scan"
                      [] tasks[t].pc = "progress1" -> "popen"
                      [] tasks[t].pc = "progress2" -> "return"]
    /\ loop' = NoTask
    /\ UNCHANGED <<steps, table, nextPid, PackageVars>>

LegacyScan(t) ==
    /\ Runs(t)
    /\ tasks[t].pc = "scan"
    /\ \E acc \in [1..Len(table) -> AccessOutcomes] :
        LET k == StopAt(table, acc, 1) IN
        IF k # 0 /\ acc[k] = "Error"
        THEN /\ steps' = Append(steps, Step(t, "scan", None, "Error"))
             /\ tasks' = [tasks EXCEPT ![t].pc = "done",
                                       ![t].response = Raise("Exception", ScanErrorText)]
             /\ loop' = NoTask
        ELSE /\ steps' = Append(steps, Step(t, "scan", None, "ok"))
             /\ tasks' = [tasks EXCEPT
                    ![t].claude_process =
                        IF k = 0 THEN NoProcess
                        ELSE [pid |-> table[k].pid, name |-> table[k].name],
                    ![t].pc =
                        IF k = 0 THEN ThenProgress(tasks[t].token, "progress1", "popen")
                        ELSE "terminate"]
             /\ loop' = t
    /\ UNCHANGED <<table, nextPid, PackageVars>>

LegacyTerminate(t) ==
    /\ Runs(t)
    /\ tasks[t].pc = "terminate"
    /\ LET proc == tasks[t].claude_process.pid IN
       \E out \in TerminateOutcomes(proc) :
        /\ steps' = Append(steps, Step(t, "terminate", proc, out))
        /\ IF out = "ok"
           THEN /\ tasks' = [tasks EXCEPT ![t].pc = "wait"]
                /\ loop' = t
           ELSE /\ tasks' = [tasks EXCEPT
                       ![t].result = OnLegacyTerminateError(@, ExcText(out)),
                       ![t].response = Return(OnLegacyTerminateError(tasks[t].result, ExcText(out))),
                       ![t].pc = "done"]
                /\ loop' = NoTask
    /\ UNCHANGED <<table, nextPid, PackageVars>>

LegacyWait(t) ==
    /\ Runs(t)
    /\ tasks[t].pc = "wait"
    /\ LET proc == tasks[t].claude_process.pid IN
       \E out \in WaitOutcomes(proc) :
        /\ steps' = Append(steps, Step(t, "wait", proc, out))
        /\ IF out = "ok"
           THEN /\ table' = RemovePid(table, proc)
                /\ tasks' = [tasks EXCEPT
                       ![t].result = AppendMessage(@, "Terminated existing Claude process. "),
                       ![t].pc = ThenProgress(tasks[t].token, "progress1", "popen")]
                /\ loop' = t
           ELSE /\ tasks' = [tasks EXCEPT
                       ![t].result = OnLegacyTerminateError(@, ExcText(out)),
                       ![t].response = Return(OnLegacyTerminateError(tasks[t].result, ExcText(out))),
                       ![t].pc = "done"]
                /\ loop' = NoTask
                /\ UNCHANGED table
    /\ UNCHANGED <<nextPid, PackageVars>>

LegacyLaunch(t) ==
    /\ Runs(t)
    /\ tasks[t].pc = "popen"
    /\ \E out \in {"ok", "Exception"} :
        /\ steps' = Append(steps, Step(t, "popen", None, out))
        /\ tasks' = [tasks EXCEPT
               ![t].result = IF out = "ok" THEN AppendMessage(@, StartedEntry)
                             ELSE OnLegacyStartError(@, "Launch failed"),
               ![t].pc = ThenProgress(tasks[t].token, "progress2", "return")]
    /\ loop' = t
    /\ UNCHANGED <<table, nextPid, PackageVars>>

LegacyReturn(t) ==
    /\ Runs(t)
    /\ tasks[t].pc = "return"
    /\ tasks' = [tasks EXCEPT ![t].response = Return(tasks[t].result), ![t].pc = "done"]
    /\ loop' = NoTask
    /\ UNCHANGED <<steps, table, nextPid, PackageVars>>

----------------------------------------------------------------------------

Start ==
    /\ table = <<>>
    /\ nextPid = 1
    /\ now = 0
    /\ pc = "idle"
    /\ request = [op |-> "none", name |-> "", arguments |-> NoArguments]
    /\ claude_processes = <<>>
    /\ idx = 0
    /\ result = NoResult
    /\ response = NoResponse
    /\ calls = <<>>
    /\ trace = NoTrip
    /\ loop = NoTask
    /\ tasks = NoTasks
    /\ steps = <<>>

Next ==
    \/ \E uri \in Uris : ReadResource(uri)
    \/ ReadScan
    \/ \E name \in ToolNames, arguments \in Arguments : CallTool(name, arguments)
    \/ Scan
    \/ Terminate
    \/ Wait
    \/ Summary
    \/ Launch
    \/ ReturnResult
    \/ EnvSpawn
    \/ EnvExit
    \/ Tick

Init == Start /\ watch = FALSE /\ scanned = ScanLog(FALSE)

Spec == Init /\ [][Next]_vars

\* The same program with the round-trip observer switched on.
InitRoundTrip == Start /\ watch = TRUE /\ scanned = ScanLog(FALSE)

SpecRoundTrip == InitRoundTrip /\ [][Next]_vars

\* The same program with the enumeration log switched on.
InitScan == Start /\ watch = FALSE /\ scanned = ScanLog(TRUE)

SpecScan == InitScan /\ [][Next]_vars

\* The same program under the scheduling of the event loop: a handler that
\* has been entered is run to its return (it contains no await and no
\* unbounded loop, and every primitive it calls returns or raises).
Handler == ReadScan \/ Scan \/ Terminate \/ Wait \/ Summary \/ Launch \/ ReturnResult

SpecLive == Init /\ [][Next]_vars /\ WF_vars(Handler)

\* The earlier server: two tool calls handed to the event loop, and the
\* operating system.
NextLegacy ==
    \/ \E t \in Requests, name \in ToolNames, token \in ProgressTokens :
            LegacyCallTool(t, name, token)
    \/ \E t \in Requests : LegacyProgress(t)
    \/ \E t \in Requests : LegacyScan(t)
    \/ \E t \in Requests : LegacyTerminate(t)
    \/ \E t \in Requests : LegacyWait(t)
    \/ \E t \in Requests : LegacyLaunch(t)
    \/ \E t \in Requests : LegacyReturn(t)
    \/ EnvSpawn
    \/ EnvExit

SpecLegacy == Init /\ [][NextLegacy]_vars

----------------------------------------------------------------------------
(* Properties *)

EndsWith(s, t) == Len(s) >= Len(t) /\ SubSeq(s, Len(s) - Len(t) + 1, Len(s)) = t

\* The request being served is a restart call.
Restart == request.op = "call_tool" /\ request.name = RestartTool

\* The request being served is a status read.
Read == request.op = "read_resource"

\* The scan of the current request went through.
Scanned == calls # <<>> /\ calls[1] = Call("scan", None, "ok")

CallsOf(op) == {i \in 1..Len(calls) : calls[i].op = op}

Failed(ops) == {i \in 1..Len(calls) : calls[i].op \in ops /\ calls[i].out # "ok"}

Returned == pc = "done" /\ response.kind = "return"

\* The restart call returned after a scan that matched at least one process,
\* all of which took the signal and exited in time.
AllTerminated ==
    /\ Restart /\ Returned /\ Scanned
    /\ Len(claude_processes) >= 1
    /\ Failed({"terminate", "wait"}) = {}

\* C1: in a restart call whose scan matched at least one process, once a
\* terminate or a wait has failed (by timeout or by any other error, at any
\* position), subprocess.Popen is never invoked and the call returns status
\* "error".
C1_NoLaunchAfterFailedTermination ==
    (Restart /\ Scanned /\ Len(claude_processes) >= 1
        /\ Failed({"terminate", "wait"}) # {})
    => /\ CallsOf("popen") = {}
       /\ pc \in {"return", "done"}
       /\ pc = "done" => response.kind = "return" /\ response.body.status = "error"

C1_Witness ==
    /\ Restart /\ Returned
    /\ Len(claude_processes) = 3
    /\ \E i \in Failed({"wait"}) :
         calls[i].pid = claude_processes[2] /\ calls[i].out = "TimeoutExpired"

\* C2: a restart call whose scan matched nothing sends no terminate signal
\* and waits for nothing; the launch is the only primitive after the scan,
\* and when it succeeds the call returns status "success" with the launch
\* entry as its whole message, which has no "Terminated" in it.
C2_NoMatchStraightToLaunch ==
    (Restart /\ Scanned /\ claude_processes = <<>>)
    => /\ CallsOf("terminate") = {} /\ CallsOf("wait") = {}
       /\ pc \in {"launch", "return", "done"}
       /\ pc # "launch" => Len(calls) = 2 /\ calls[2].op = "popen"
       /\ (pc = "done" /\ calls[2].out = "ok")
          => /\ response.kind = "return"
             /\ response.body.status = "success"
             /\ response.body.message = "Started new Claude process."
             /\ ~Contains(response.body.message, "Terminated")

C2_Witness ==
    /\ Restart /\ Returned /\ Scanned
    /\ claude_processes = <<>>
    /\ table # <<>>
    /\ response.body.status = "success"

\* C3: when the scan matched N >= 1 processes and every one of them exited
\* within the timeout, every matched process was sent a terminate signal, the
\* launch was attempted once, and when it succeeded the result is "success"
\* with a message that has exactly one summary entry, with count N, followed
\* by the launch entry.
C3_AllTerminatedThenLaunch ==
    AllTerminated
    => LET N == Len(claude_processes)
           msg == response.body.message
       IN  /\ \A k \in 1..N : \E i \in CallsOf("terminate") :
                calls[i].pid = claude_processes[k] /\ calls[i].out = "ok"
           /\ Cardinality(CallsOf("popen")) = 1
           /\ Failed({"popen"}) = {}
              => /\ response.body.status = "success"
                 /\ Occurrences(msg, "existing Claude process(es)") = 1
                 /\ EndsWith(msg, "Terminated " \o ToString(N)
                                  \o " existing Claude process(es). "
                                  \o "Started new Claude process.")

C3_Witness ==
    /\ AllTerminated
    /\ Len(claude_processes) = 3
    /\ response.body.status = "success"

\* The launch failed after every matched process had been terminated.
LaunchFailedAfterTermination == AllTerminated /\ Failed({"popen"}) # {}

\* C4, as claimed: when the launch fails after all N >= 1 matched processes
\* were terminated, the call returns status "error" with the launch-specific
\* message, and the "Terminated" text appended before the launch is still in
\* the returned message.
C4_TerminatedTextKept ==
    LaunchFailedAfterTermination
    => /\ response.body.status = "error"
       /\ Contains(response.body.message, "Failed to start Claude")
       /\ Contains(response.body.message, "Terminated")

\* C4, amended: when the launch fails after all N >= 1 matched processes were
\* terminated, the call returns status "error" and the message is exactly
\* "Failed to start Claude": it replaces the "Terminated" text appended
\* before the launch, which is not in the returned message.
C4_LaunchFailureReplacesMessage ==
    LaunchFailedAfterTermination
    => /\ response.body.status = "error"
       /\ response.body.message = "Failed to start Claude"
       /\ ~Contains(response.body.message, "Terminated")

C4_Witness == LaunchFailedAfterTermination /\ Len(claude_processes) = 2

\* C5: every status report has running = (pid is not None); with a match the
\* pid is that of the first match in enumeration order, without one running
\* is false and pid is null.
C5_RunningIffPid ==
    (Read /\ Returned)
    => LET st == response.body
       IN  /\ st.running = (st.pid # None)
           /\ claude_processes # <<>> => st.running /\ st.pid = claude_processes[1]
           /\ claude_processes = <<>> => ~st.running /\ st.pid = None

C5_Witness ==
    /\ Read /\ Returned
    /\ Len(claude_processes) >= 2
    /\ response.body.pid = claude_processes[1]

UnknownResource == response.kind = "raise" /\ Contains(response.text, "Unknown resource")

\* C6, as claimed: a status read fails with an "Unknown resource" error if
\* and only if its identifier differs from "claude://status"; a read that
\* fails for that reason has not scanned the process table; and with the
\* valid identifier no failure of the scan is reported as "Unknown resource".
C6_UnknownResourceIffOtherUri ==
    (Read /\ pc = "done")
    => /\ UnknownResource <=> request.name # "claude://status"
       /\ request.name # "claude://status" => calls = <<>>
       /\ request.name = "claude://status" => ~(Failed({"scan"}) # {} /\ UnknownResource)

\* A step of the running handler (not of the operating system).
HandlerStep ==
    <<pc, request, claude_processes, idx, result, response, calls>>'
        # <<pc, request, claude_processes, idx, result, response, calls>>

\* C7: a tool call with any name other than "restart_claude", whatever its
\* arguments, fails with "Unknown tool" before anything starts: no scan, no
\* terminate, no wait, no launch, and the process table stays as it is.
C7_UnknownToolNeverStarts ==
    [][(HandlerStep /\ request'.op = "call_tool" /\ request'.name # "restart_claude")
       => /\ pc' = "done"
          /\ response' = Raise("ValueError", "Unknown tool: " \o request'.name)
          /\ calls' = <<>>
          /\ table' = table]_vars

C7_Witness ==
    /\ request.op = "call_tool"
    /\ request.name = "stop_claude"
    /\ request.arguments # NoArguments
    /\ response.kind = "raise"
    /\ \E i \in 1..Len(table) : table[i].name = Target

\* C8: in a restart call every failure of a terminate, of a wait or of the
\* launch ends as a returned result with status "error" and a message that
\* is not empty; none leaves the handler as an exception.
C8_FailuresBecomeErrorResults ==
    (Restart /\ pc = "done" /\ Failed({"terminate", "wait", "popen"}) # {})
    => /\ response.kind = "return"
       /\ response.body.status = "error"
       /\ response.body.message # ""

C8_Witness ==
    /\ Restart /\ Returned
    /\ \E i \in Failed({"terminate"}) : calls[i].out = "AccessDenied"

\* C9: once the status of a restart call is "error", the handler's next step
\* is the return: it invokes no further primitive and leaves the process
\* table alone, so the matched processes after the failing one get no
\* terminate signal and no wait.
C9_ErrorGoesStraightToDone ==
    /\ [][(HandlerStep /\ Restart /\ pc \notin {"idle", "done"} /\ result.status = "error")
          => /\ pc' = "done"
             /\ response' = Return(result)
             /\ calls' = calls
             /\ table' = table]_vars
    /\ [](Restart /\ result.status = "error" /\ Failed({"terminate", "wait"}) # {}
          => \A k \in (idx + 1)..Len(claude_processes) :
                \A i \in 1..Len(calls) : calls[i].pid # claude_processes[k])

C9_Witness ==
    /\ Restart /\ Returned
    /\ response.body.status = "error"
    /\ idx < Len(claude_processes)
    /\ Alive(claude_processes[idx + 1])
    /\ CallsOf("popen") = {}

TerminateAt(k) == 2 * k

WaitAt(k) == 2 * k + 1

\* C11: the terminating phase handles the matched processes one at a time in
\* enumeration order: the calls after the scan are terminate and wait of the
\* first process, then of the second, and so on; a wait follows the successful
\* terminate of the same process, and the terminate of the next process
\* follows the successful wait of the previous one.
C11_OneAtATimeInOrder ==
    (Restart /\ Scanned)
    => \A i \in 2..Len(calls) :
         /\ calls[i].op = "terminate"
            => /\ \E k \in 1..Len(claude_processes) :
                     i = TerminateAt(k) /\ calls[i].pid = claude_processes[k]
               /\ i > 2 => calls[i - 1].op = "wait" /\ calls[i - 1].out = "ok"
         /\ calls[i].op = "wait"
            => /\ \E k \in 1..Len(claude_processes) :
                     i = WaitAt(k) /\ calls[i].pid = claude_processes[k]
               /\ calls[i - 1] = Call("terminate", calls[i].pid, "ok")

C11_Witness ==
    /\ Restart /\ Scanned
    /\ Len(claude_processes) = 3
    /\ Len(calls) >= WaitAt(3)
    /\ calls[WaitAt(3)].op = "wait"

\* C12: when the launch is invoked (and from then on), every process of the
\* call's snapshot has been sent a terminate signal that it took and has been
\* waited for until it exited, and none of them is running.
C12_LaunchAfterAllExited ==
    (Restart /\ Scanned /\ (pc = "launch" \/ CallsOf("popen") # {}))
    => \A k \in 1..Len(claude_processes) :
         /\ \E i \in CallsOf("terminate") :
               calls[i].pid = claude_processes[k] /\ calls[i].out = "ok"
         /\ \E i \in CallsOf("wait") :
               calls[i].pid = claude_processes[k] /\ calls[i].out = "ok"
         /\ ~Alive(claude_processes[k])

C12_Witness ==
    /\ Restart /\ Scanned
    /\ pc = "launch"
    /\ Len(claude_processes) = 2
    /\ table # <<>>

\* A step of a restart call that is under way.
RestartStep == HandlerStep /\ Restart /\ pc \notin {"idle", "done"}

\* The entries the current call appended for the processes that exited.
EntryOf(i) == "Terminated Claude process " \o ToString(calls[i].pid) \o ". "

Appended == {i \in CallsOf("wait") : calls[i].out = "ok"}

\* C13, as claimed: the message is an append-only log: at every step of a
\* restart call the previous message is a prefix of the new one, so every
\* entry that was appended is in the message the call returns, whether it ends
\* in success or in error.
C13_AppendOnly ==
    /\ [][RestartStep => StartsWith(result'.message, result.message)]_vars
    /\ []((Restart /\ Returned)
          => \A i \in Appended : Contains(response.body.message, EntryOf(i)))

\* C13, amended: the message is append-only while the status stays "success":
\* a step that leaves the status "success" keeps the previous message as a
\* prefix, and a result with status "success" has every appended entry and
\* the summary; a step that sets status "error" replaces the message by the
\* failure text alone, and a result with status "error" has none of the
\* entries appended before.
C13_AppendOnlyUntilError ==
    /\ [][RestartStep
          => IF result'.status = "error" /\ result.status # "error"
             THEN \/ result'.message = "Failed to start Claude"
                  \/ StartsWith(result'.message, "Failed to terminate Claude: ")
             ELSE StartsWith(result'.message, result.message)]_vars
    /\ []((Restart /\ Returned /\ response.body.status = "success")
          => \A i \in Appended : Contains(response.body.message, EntryOf(i)))
    /\ []((Restart /\ Returned /\ response.body.status = "error")
          => /\ StartsWith(response.body.message, "Failed to ")
             /\ \A i \in Appended : ~Contains(response.body.message, EntryOf(i)))

C13_Witness ==
    /\ Restart /\ Returned
    /\ response.body.status = "error"
    /\ Cardinality(Appended) = 2

\* C14: when a matched process does not exit within the timeout the call
\* returns status "error" with exactly the message "Failed to terminate
\* Claude: timeout", for every number of matches and every position of the
\* process; when terminate or wait fails otherwise the message is exactly
\* "Failed to terminate Claude: " followed by the cause.
C14_TerminationFailureMessages ==
    (Restart /\ Returned)
    => \A i \in Failed({"terminate", "wait"}) :
         /\ response.body.status = "error"
         /\ response.body.message =
               IF calls[i].out = "TimeoutExpired"
               THEN "Failed to terminate Claude: timeout"
               ELSE "Failed to terminate Claude: " \o ExcText(calls[i].out)

C14_Witness ==
    /\ Restart /\ Returned
    /\ Len(claude_processes) = 3
    /\ Len(calls) = WaitAt(3)
    /\ calls[WaitAt(3)] = Call("wait", claude_processes[3], "TimeoutExpired")

\* C15, as claimed: sending the terminate signal to a matched process that
\* has exited on its own since the scan is safe: the call does not fail
\* because of it and goes on to the remaining processes and to the launch.
C15_TerminateRaceTolerant ==
    [][(RestartStep /\ pc = "terminate" /\ ~Alive(claude_processes[idx]))
       => result'.status # "error" /\ pc' # "return"]_vars

\* The request under way has enumerated the process table.
ScanDone == calls # <<>> /\ calls[1].op = "scan"

Met == 1..Len(scanned.entries)

\* The positions of the enumeration where the process had vanished or could
\* not be read.
Skipped == {i \in Met : scanned.entries[i].access = "skipped"}

Snapshot == {claude_processes[k] : k \in 1..Len(claude_processes)}

\* C16: a process that vanishes or is inaccessible while the process table
\* is enumerated, in a status read and in a restart, is silently skipped: it
\* is not in the snapshot, the readable matching processes after it are, and
\* an enumeration that met nothing worse comes back without an error and
\* without an error status.
C16_VanishedSkippedSilently ==
    ScanDone
    => /\ \A i \in Skipped : scanned.entries[i].pid \notin Snapshot
       /\ (\A i \in Met : scanned.entries[i].access # "Error")
          => /\ calls[1].out = "ok"
             /\ \A i \in Met :
                  (scanned.entries[i].access = "ok" /\ scanned.entries[i].name = Target)
                  => scanned.entries[i].pid \in Snapshot
             /\ Len(calls) = 1 => response.kind # "raise"
             /\ (Restart /\ Len(calls) = 1) => result.status = "success"
             /\ (Read /\ pc = "done") => response.kind = "return"

C16_Witness ==
    /\ Restart /\ Returned
    /\ response.body.status = "success"
    /\ \E i, j \in Met :
         /\ i < j
         /\ i \in Skipped
         /\ scanned.entries[i].name = Target
         /\ scanned.entries[j].access = "ok"
         /\ scanned.entries[j].pid \in Snapshot

\* The package's handlers match by exact name: the snapshot is the readable
\* processes of the enumeration named "Claude Desktop", in enumeration
\* order, and only they are signalled or reported.
PackageExactNameMatch ==
    (ScanDone /\ calls[1].out = "ok")
    => /\ claude_processes =
            Locate([i \in Met |-> [pid |-> scanned.entries[i].pid,
                                   name |-> scanned.entries[i].name]],
                   [i \in Met |-> IF scanned.entries[i].access = "ok" THEN "ok"
                                  ELSE "NoSuchProcess"])
       /\ \A k \in 1..Len(claude_processes) :
            \E i \in Met : /\ scanned.entries[i].pid = claude_processes[k]
                           /\ scanned.entries[i].name = Target
       /\ \A i \in CallsOf("terminate") : calls[i].pid \in Snapshot
       /\ (Read /\ Returned /\ response.body.running) => response.body.pid \in Snapshot

\* C17, as claimed: matching is by exact name: the process a scan of
\* src/server.py picks is named exactly "Claude Desktop", and a process
\* whose name merely contains "Claude" is never picked and never receives a
\* terminate signal.
C17_ExactNameMatch ==
    /\ \A t \in Requests :
         tasks[t].claude_process # NoProcess => tasks[t].claude_process.name = Target
    /\ \A i \in 1..Len(steps) :
         steps[i].op = "terminate" => tasks[steps[i].task].claude_process.name = Target

\* The progress of a restart call: the number of steps it can still take.
Rank ==
    CASE pc = "terminate" -> 2 * (Len(claude_processes) - idx) + 5
      [] pc = "wait"      -> 2 * (Len(claude_processes) - idx) + 4
      [] pc = "summary"   -> 3
      [] pc = "launch"    -> 2
      [] pc = "return"    -> 1
      [] OTHER            -> 0

\* The model's clock has reached its bound, so the launch, which takes time,
\* cannot be modelled any further.
ClockExhausted == pc = "launch" /\ now = MaxClock

\* C18: every restart call whose scan came back reaches a terminal state and
\* returns a result with status "success" or "error", whatever the snapshot
\* and whatever the matched processes do: each step of the call brings it
\* closer to the return; and after the return the call makes no further
\* step: the log of its primitives stays as it is until the next request
\* begins.
C18_ReachesTerminalState ==
    /\ (Restart /\ Scanned /\ pc \notin {"idle", "done"}) ~> (Returned \/ ClockExhausted)
    /\ [][(RestartStep /\ pc # "scan") => Rank' < Rank]_vars
    /\ [][(Restart /\ pc = "done")
          => \/ calls' = calls /\ pc' = "done"
             \/ calls' = <<>> /\ pc' \in {"done", "scan", "read_scan"}]_vars
    /\ []((Restart /\ Returned) => response.body.status \in {"success", "error"})

C18_Witness ==
    /\ Restart /\ Returned
    /\ Len(claude_processes) = 3
    /\ Failed({"popen"}) # {}

\* C19, as claimed: restart calls do not overlap: when two calls of
\* src/server.py are in flight, the scan, terminate, wait and launch steps
\* of one all come before or all come after the steps of the other.
C19_CallsDoNotInterleave ==
    \A i, j, k \in 1..Len(steps) :
        (i < j /\ j < k /\ steps[i].task = steps[k].task) => steps[j].task = steps[i].task

\* Calls without a progress token never await, and do not interleave.
NoAwaitNoInterleaving ==
    (\A t \in Requests : tasks[t].token = NoToken) => C19_CallsDoNotInterleave

\* C20: a restart call invokes the launch at most once, and the status it
\* returns is "success" exactly when the launch was invoked in that call and
\* did not fail.
C20_SuccessIffLaunched ==
    Restart
    => /\ Cardinality(CallsOf("popen")) <= 1
       /\ Returned
          => (response.body.status = "success"
              <=> \E i \in CallsOf("popen") : calls[i].out = "ok")

C20_Witness ==
    /\ Restart /\ Returned
    /\ Len(claude_processes) = 1
    /\ response.body.status = "success"
    /\ Len(calls) = 4

====
